---- MODULE Spec2Model ----
(***************************************************************************)
(* Model of mala/losses/um_loss.py: the ultrametric loss on a minimum      *)
(* spanning tree, its forward/backward wrapper UmLoss, and the graph       *)
(* construction of ultrametric_loss_op.                                    *)
(*                                                                         *)
(* Numbers.  Every number of the model is an integer-valued float.  All    *)
(* integers TLC can hold (|x| < 2^31) are exact in float64, so float64     *)
(* arithmetic on them is integer arithmetic; float32 keeps 24 significant  *)
(* bits, so a cast to float32 rounds (F32 below).  The inputs are chosen   *)
(* so that every square root the code takes is the root of a perfect       *)
(* square.                                                                 *)
(*                                                                         *)
(* Tensors are records [shape, at]: at maps every 0-based index tuple of   *)
(* the shape to the element stored there.                                  *)
(***************************************************************************)
EXTENDS Integers, Sequences, FiniteSets, TLC

VARIABLES
    \* ---- the UmLoss instance (private attributes) ----
    um,           \* [loss, gradient, num_pairs_pos, num_pairs_neg]
    \* ---- one evaluation of the exact-mode op ----
    pc,           \* position of the current phase
    inputs,       \* op.inputs of the current evaluation: [mst, dist, gt_seg, alpha]
    loss_ret,     \* what UmLoss.loss returned in this evaluation
    grad_ret,     \* what UmLoss.gradient returned in this evaluation
    op_ret,       \* what UmLoss.gradient_op returned in this evaluation
    upstream,     \* (dloss, dpairs_pos, dpairs_neg) handed to gradient_op
    forward_args, \* history: the arguments of the most recent loss() call
    oracle_calls, \* history: get_um_loss invocations in this evaluation
    \* ---- the graph built by ultrametric_loss_op ----
    embedding_arg,   \* the embedding argument, shape (k, d, h, w)
    add_coordinates, \* the add_coordinates argument
    embedding,    \* the local embedding at the current construction stage
    gt_seg,       \* the label tensor
    alpha,        \* the margin
    emst,         \* output of get_emst_op
    dist_squared, \* per-edge squared length
    dist,         \* per-edge length
    stats,        \* the 4 outputs of the get_um_loss py_func (pretrain)
    loss          \* the loss output

vars == << um, pc, inputs, loss_ret, grad_ret, op_ret, upstream, forward_args,
           oracle_calls, embedding_arg, add_coordinates, embedding, gt_seg, alpha, emst, dist_squared, dist,
           stats, loss >>

\* Python's None.  A variable that may hold None holds the set of its values:
\* None is the empty set and Some(v) holds v.
None == {}

Some(v) == {v}

Value(o) == CHOOSE v \in o : TRUE

-----------------------------------------------------------------------------
(* Arithmetic                                                              *)

F32Bits == 24

RECURSIVE Pow2(_)
Pow2(k) == IF k = 0 THEN 1 ELSE 2 * Pow2(k - 1)

Abs(x) == IF x < 0 THEN -x ELSE x

Max(a, b) == IF a >= b THEN a ELSE b

\* Integers below this magnitude are float32 values.
F32Exact == Pow2(F32Bits)

\* The spacing of float32 values around the magnitude m >= 0.
RECURSIVE Ulp(_, _)
Ulp(m, u) == IF m < u * F32Exact THEN u ELSE Ulp(m, 2 * u)

\* numpy.float32(x) / astype(float32) / tf.cast(x, tf.float32) of an
\* integer-valued x: round to 24 significant bits, ties to even.
F32(x) ==
    LET m == Abs(x)
        u == Ulp(m, 1)
        q == m \div u
        r == m % u
        up == (2 * r > u) \/ (2 * r = u /\ q % 2 = 1)
        y == IF up THEN (q + 1) * u ELSE q * u
    IN  IF x < 0 THEN -y ELSE y

\* Square root where the code takes it: of a perfect square.
Sqrt(x) == CHOOSE r \in 0..x : r * r = x

IsSquare(x) == \E r \in 0..x : r * r = x

RECURSIVE SumSeq(_)
SumSeq(s) == IF s = << >> THEN 0 ELSE Head(s) + SumSeq(Tail(s))

-----------------------------------------------------------------------------
(* Tensors                                                                 *)

\* All 0-based index tuples of a shape.
RECURSIVE Indices(_)
Indices(shape) ==
    IF shape = << >> THEN { << >> }
    ELSE { <<i>> \o rest : i \in 0..(Head(shape) - 1), rest \in Indices(Tail(shape)) }

RECURSIVE Size(_)
Size(shape) == IF shape = << >> THEN 1 ELSE Head(shape) * Size(Tail(shape))

\* Row-major (C order) position of an index tuple.
RECURSIVE Offset(_, _)
Offset(shape, idx) ==
    IF shape = << >> THEN 0
    ELSE Head(idx) * Size(Tail(shape)) + Offset(Tail(shape), Tail(idx))

\* The index tuple at a row-major position.
Unravel(shape, k) == CHOOSE idx \in Indices(shape) : Offset(shape, idx) = k

\* ndarray.flatten(): the elements in row-major order (1-based sequence).
Flatten(t) == [k \in 1..Size(t.shape) |-> t.at[Unravel(t.shape, k - 1)]]

\* tf.transpose(t, perm): output dimension j is input dimension perm[j].
Transpose(t, perm) ==
    LET r == Len(perm)
        shp == [j \in 1..r |-> t.shape[perm[j] + 1]]
        Src(idx) == [d \in 1..r |->
                       idx[CHOOSE j \in 1..r : perm[j] + 1 = d]]
    IN  [shape |-> shp, at |-> [idx \in Indices(shp) |-> t.at[Src(idx)]]]

\* tf.reshape(t, [rows, -1]): same row-major element order, new shape.
Reshape(t, rows) ==
    LET cols == Size(t.shape) \div rows
        shp == <<rows, cols>>
        flat == Flatten(t)
    IN  [shape |-> shp, at |-> [idx \in Indices(shp) |-> flat[Offset(shp, idx) + 1]]]

\* tf.concat([a, b], 0) of tensors of equal trailing shape.
Concat0(a, b) ==
    LET shp == <<a.shape[1] + b.shape[1]>> \o Tail(a.shape)
    IN  [shape |-> shp,
         at |-> [idx \in Indices(shp) |->
                   IF idx[1] < a.shape[1] THEN a.at[idx]
                   ELSE b.at[<<idx[1] - a.shape[1]>> \o Tail(idx)]]]

\* Row r (0-based) of a matrix, as a sequence.
Row(m, r) == [c \in 1..m.shape[2] |-> m.at[<<r, c - 1>>]]

-----------------------------------------------------------------------------
(* The pair-statistics oracle mala.um_loss (tree contraction in order of   *)
(* ascending edge distance) and its adapter get_um_loss                    *)

\* An mst is a sequence of edges <<u, v, distance>>, nodes numbered from 0.
NumNodes(mst) == Len(mst) + 1

EdgeIds(mst) == 1..Len(mst)

\* The nodes joined to the nodes of S by the edges E of mst.
RECURSIVE Cluster(_, _, _)
Cluster(mst, E, S) ==
    LET T == S \cup { mst[e][2] : e \in { f \in E : mst[f][1] \in S } }
               \cup { mst[e][1] : e \in { f \in E : mst[f][2] \in S } }
    IN  IF T = S THEN S ELSE Cluster(mst, E, T)

\* Edge e is contracted before edge f: shorter first, ties in array order.
ContractedBefore(mst, e, f) ==
    \/ mst[e][3] < mst[f][3]
    \/ mst[e][3] = mst[f][3] /\ e < f

\* The pairs merged by edge f: one point in each of the two clusters that the
\* edges contracted before f have formed around the endpoints of f.
MergedPairs(mst, f) ==
    LET E == { e \in EdgeIds(mst) : ContractedBefore(mst, e, f) }
    IN  Cluster(mst, E, {mst[f][1]}) \X Cluster(mst, E, {mst[f][2]})

NumPairsPos(mst, labels, f) ==
    Cardinality({ p \in MergedPairs(mst, f) : labels[p[1] + 1] = labels[p[2] + 1] })

NumPairsNeg(mst, labels, f) ==
    Cardinality({ p \in MergedPairs(mst, f) : labels[p[1] + 1] # labels[p[2] + 1] })

\* Per-edge loss term: d^2 per positive pair, max(0, alpha - d)^2 per negative.
EdgeLoss(d, a, pos, neg) == d * d * pos + Max(0, a - d) * Max(0, a - d) * neg

\* Its derivative with respect to d.
EdgeGradient(d, a, pos, neg) == 2 * d * pos - 2 * Max(0, a - d) * neg

\* The outputs of mala.um_loss, given the pair counts of the edges.
UmLossOutputs(mst, a, pos, neg) ==
    << SumSeq([e \in EdgeIds(mst) |-> EdgeLoss(mst[e][3], a, pos[e], neg[e])]),
       [e \in EdgeIds(mst) |-> EdgeGradient(mst[e][3], a, pos[e], neg[e])],
       pos,
       neg >>

\* mala.um_loss(mst, labels, alpha): (loss, gradients, num_pairs_pos, num_pairs_neg)
mala_um_loss(mst, labels, a) ==
    UmLossOutputs(mst, a,
                  [e \in EdgeIds(mst) |-> NumPairsPos(mst, labels, e)],
                  [e \in EdgeIds(mst) |-> NumPairsNeg(mst, labels, e)])

\* get_um_loss with the outputs in the wrong order.
GetUmLossSwapped(mst, gt, a) ==
    LET r == mala_um_loss(mst, Flatten(gt), a)
    IN  << r[1], r[3], r[2], r[4] >>

get_um_loss(mst, gt, a) == mala_um_loss(mst, Flatten(gt), a)

-----------------------------------------------------------------------------
(* Input sets                                                              *)

MaxNodes == 3

EdgeDists == {0, 1, 2}

Labels == {0, 1}

Alphas == {0, 1, 2}

RECURSIVE SetToSeq(_)
\* The pairs of S in lexicographic order.
SetToSeq(S) ==
    IF S = {} THEN << >>
    ELSE LET m == CHOOSE x \in S : \A y \in S :
                      x[1] < y[1] \/ (x[1] = y[1] /\ x[2] <= y[2])
         IN  <<m>> \o SetToSeq(S \ {m})

NodePairs(n) == { p \in (0..(n - 1)) \X (0..(n - 1)) : p[1] < p[2] }

\* The spanning trees over n nodes, each as a sequence of n-1 node pairs.
TreeShapes(n) ==
    { SetToSeq(E) : E \in { F \in SUBSET NodePairs(n) :
          /\ Cardinality(F) = n - 1
          /\ LET s == SetToSeq(F)
             IN  Cluster([e \in 1..Len(s) |-> <<s[e][1], s[e][2], 0>>],
                         1..Len(s), {0}) = 0..(n - 1) } }

\* The spanning trees over n nodes with every choice of edge distances.
Trees(n) ==
    { [e \in 1..(n - 1) |-> <<s[e][1], s[e][2], d[e]>>] :
        s \in TreeShapes(n), d \in [1..(n - 1) -> EdgeDists] }

\* The label tensors of n points (a grid of depth 1, height 1, width n).
LabelTensors(n) ==
    { [shape |-> <<1, 1, n>>, at |-> [idx \in Indices(<<1, 1, n>>) |-> l[idx[3] + 1]]] :
        l \in [1..n -> Labels] }

cacheVars == << um, inputs, loss_ret, grad_ret, op_ret, upstream, forward_args,
                oracle_calls >>

graphVars == << embedding_arg, add_coordinates, embedding, gt_seg, alpha, emst, dist_squared, dist, stats, loss >>

-----------------------------------------------------------------------------
(* SpecOracle: get_um_loss applied to every spanning tree                  *)

InitOracle ==
    /\ pc = "ready"
    /\ \E n \in 2..MaxNodes :
          /\ emst \in Trees(n)
          /\ gt_seg \in LabelTensors(n)
    /\ alpha \in Alphas
    /\ stats = None
    /\ embedding_arg = None /\ add_coordinates = FALSE
    /\ embedding = None /\ dist_squared = None /\ dist = None /\ loss = None
    /\ um = None /\ inputs = None /\ loss_ret = None /\ grad_ret = None
    /\ op_ret = None /\ upstream = None /\ forward_args = None
    /\ oracle_calls = 0

CallGetUmLoss ==
    /\ pc = "ready"
    /\ stats' = get_um_loss(emst, gt_seg, alpha)
    /\ pc' = "done"
    /\ UNCHANGED << embedding_arg, add_coordinates, embedding, gt_seg, alpha,
                    emst, dist_squared, dist, loss >>
    /\ UNCHANGED cacheVars

NextOracle == CallGetUmLoss

SpecOracle == InitOracle /\ [][NextOracle]_vars

\* The two sides of the tree when edge e is removed.
SideU(mst, e) == Cluster(mst, EdgeIds(mst) \ {e}, {mst[e][1]})

SideV(mst, e) == Cluster(mst, EdgeIds(mst) \ {e}, {mst[e][2]})

\* The edges on the tree path between nodes i and j.
PathEdges(mst, i, j) ==
    { e \in EdgeIds(mst) : (i \in SideU(mst, e)) # (j \in SideU(mst, e)) }

\* The maximum-weight edge on the path between i and j (ties: the later edge).
Bottleneck(mst, i, j) ==
    CHOOSE e \in PathEdges(mst, i, j) :
        \A f \in PathEdges(mst, i, j) \ {e} : ContractedBefore(mst, f, e)

OracleDone == pc = "done"

\* C5: the pair counts of all edges add up to n*(n-1)/2, every unordered pair
\* of distinct points being counted on exactly one edge, the maximum-weight
\* edge of its tree path.
C5_PairsPartition ==
    OracleDone =>
        LET n == NumNodes(emst)
        IN  /\ 2 * (SumSeq(stats[3]) + SumSeq(stats[4])) = n * (n - 1)
            /\ \A e \in EdgeIds(emst) :
                 stats[3][e] + stats[4][e] =
                   Cardinality({ p \in NodePairs(n) : Bottleneck(emst, p[1], p[2]) = e })

C5_Witness ==
    /\ OracleDone
    /\ NumNodes(emst) = 3
    /\ \E e \in EdgeIds(emst) : stats[3][e] > 0 /\ stats[4][e] > 0

\* C9 as stated: every edge counts all a*(n-a) pairs it separates.
C9_AllSeparatedPairs ==
    OracleDone =>
        \A e \in EdgeIds(emst) :
            stats[3][e] + stats[4][e] =
              Cardinality(SideU(emst, e)) * Cardinality(SideV(emst, e))

\* C9 amended: the pairs counted on edge e are those of the a*(n-a) pairs
\* separated by e that have e as the maximum-weight edge of their tree path;
\* their number is at most a*(n-a), with equality when no edge of the tree is
\* contracted after e.
C9_SeparatedBottleneckPairs ==
    OracleDone =>
        \A e \in EdgeIds(emst) :
            LET a == Cardinality(SideU(emst, e))
                n == NumNodes(emst)
                counted == { p \in SideU(emst, e) \X SideV(emst, e) :
                               Bottleneck(emst, p[1], p[2]) = e }
            IN  /\ Cardinality(SideV(emst, e)) = n - a
                /\ stats[3][e] + stats[4][e] = Cardinality(counted)
                /\ stats[3][e] + stats[4][e] <= a * (n - a)
                /\ (\A f \in EdgeIds(emst) \ {e} : ContractedBefore(emst, f, e))
                      => stats[3][e] + stats[4][e] = a * (n - a)

C9_Witness ==
    /\ OracleDone
    /\ NumNodes(emst) = 3
    /\ \E e \in EdgeIds(emst) :
          stats[3][e] + stats[4][e] < Cardinality(SideU(emst, e)) * Cardinality(SideV(emst, e))

-----------------------------------------------------------------------------
(* class UmLoss                                                            *)

CastAll(a) == [e \in DOMAIN a |-> F32(a[e])]

\* UmLoss.__init__: the attributes of a new instance.
UmLoss_init == [loss |-> None, gradient |-> None]

\* UmLoss.loss that forgets to store the gradient.
UmLossLossKeepsGradient(self, mst, d, gt, a) ==
    LET r == get_um_loss(mst, gt, a)
    IN  [self |-> [loss |-> Some(F32(r[1])),
                   gradient |-> self.gradient,
                   num_pairs_pos |-> CastAll(r[3]),
                   num_pairs_neg |-> CastAll(r[4])],
         ret |-> << F32(r[1]), CastAll(r[3]), CastAll(r[4]) >>]

\* UmLoss.loss: the instance after the call, and the returned
\* (loss, num_pairs_pos, num_pairs_neg).  d (dist) is not used.
UmLoss_loss(self, mst, d, gt, a) ==
    LET r == get_um_loss(mst, gt, a)
    IN  [self |-> [loss |-> Some(F32(r[1])),
                   gradient |-> Some(CastAll(r[2])),
                   num_pairs_pos |-> CastAll(r[3]),
                   num_pairs_neg |-> CastAll(r[4])],
         ret |-> << F32(r[1]), CastAll(r[3]), CastAll(r[4]) >>]

\* UmLoss.gradient that returns the gradient stored by loss().
UmLossGradientFromCache(self, mst, d, gt, a) == self.gradient

\* UmLoss.gradient: the returned per-edge gradient (None is never returned).
UmLoss_gradient(self, mst, d, gt, a) == Some(CastAll(get_um_loss(mst, gt, a)[2]))

\* UmLoss.gradient_op that hands the gradient to the first input.
UmLossGradientOpFirst(g, dloss, dpairs_pos, dpairs_neg) ==
    << Some([e \in DOMAIN g |-> F32(g[e] * dloss)]), None, None, None >>

\* UmLoss.gradient_op, g being the output of the gradient py_func on
\* op.inputs: one entry per input (mst, dist, gt_seg, alpha).
UmLoss_gradient_op(g, dloss, dpairs_pos, dpairs_neg) ==
    << None, Some([e \in DOMAIN g |-> F32(g[e] * dloss)]), None, None >>

-----------------------------------------------------------------------------
(* Spec: the exact-mode op of one ultrametric_loss_op call, evaluated      *)
(* again and again                                                         *)

ChainNodes == 3

ChainDists == {1, 4999}

\* The path 0 - 1 - ... - (n-1) with every choice of edge distances.
Chains(n) ==
    { [e \in 1..(n - 1) |-> <<e - 1, e, d[e]>>] : d \in [1..(n - 1) -> ChainDists] }

\* The values the op inputs (emst, dist, gt_seg, alpha) can take.  Point 0
\* has label 0: the pair statistics depend only on which labels are equal.
OpInputs ==
    { [mst |-> m, dist |-> [e \in 1..Len(m) |-> F32(m[e][3])], gt_seg |-> g, alpha |-> a] :
        m \in Chains(ChainNodes),
        g \in { t \in LabelTensors(ChainNodes) : t.at[<<0, 0, 0>>] = 0 },
        a \in {2} }

\* Upstream gradients (dloss, dpairs_pos, dpairs_neg).
Upstreams == { <<1, 0, 0>>, <<3, 0, 0>>, <<3, 1, 1>> }

Init ==
    /\ um = UmLoss_init
    /\ pc = "idle"
    /\ inputs = None /\ loss_ret = None /\ grad_ret = None /\ op_ret = None
    /\ upstream = None /\ forward_args = None
    /\ oracle_calls = 0
    /\ embedding_arg = None /\ add_coordinates = FALSE
    /\ embedding = None /\ gt_seg = None /\ alpha = None /\ emst = None
    /\ dist_squared = None /\ dist = None /\ stats = None /\ loss = None

\* Feed that evaluates the op on a new UmLoss instance.
FeedFreshInstance ==
    /\ pc = "idle"
    /\ \E x \in OpInputs : inputs' = Some(x)
    /\ pc' = "fed"
    /\ um' = UmLoss_init
    /\ UNCHANGED << loss_ret, grad_ret, op_ret, upstream, forward_args, oracle_calls >>
    /\ UNCHANGED graphVars

\* An evaluation (training step) begins: the op's inputs get their values.
\* The UmLoss instance is the one bound when the op was built.
Feed ==
    /\ pc = "idle"
    /\ \E x \in OpInputs : inputs' = Some(x)
    /\ pc' = "fed"
    /\ UNCHANGED << um, loss_ret, grad_ret, op_ret, upstream, forward_args, oracle_calls >>
    /\ UNCHANGED graphVars

\* The forward py_func runs l.loss(m, d, g, a).
Forward ==
    /\ pc = "fed"
    /\ LET x == Value(inputs)
           r == UmLoss_loss(um, x.mst, x.dist, x.gt_seg, x.alpha)
       IN  /\ um' = r.self
           /\ loss_ret' = Some(r.ret)
    /\ forward_args' = inputs
    /\ oracle_calls' = oracle_calls + 1
    /\ pc' = "forwarded"
    /\ UNCHANGED << inputs, grad_ret, op_ret, upstream >>
    /\ UNCHANGED graphVars

\* The backward pass runs gradient_op, whose py_func runs l.gradient on
\* op.inputs; the forward py_func need not have run in this evaluation.
Backward ==
    /\ pc \in {"fed", "forwarded"}
    /\ \E u \in Upstreams :
          LET x == Value(inputs)
              g == UmLoss_gradient(um, x.mst, x.dist, x.gt_seg, x.alpha)
          IN  /\ upstream' = Some(u)
              /\ grad_ret' = g
              /\ op_ret' = IF g = None THEN None
                           ELSE Some(UmLoss_gradient_op(Value(g), u[1], u[2], u[3]))
    /\ oracle_calls' = oracle_calls + 1
    /\ pc' = "done"
    /\ UNCHANGED << um, inputs, loss_ret, forward_args >>
    /\ UNCHANGED graphVars

\* The evaluation ends; the instance stays with the op.
EndEval ==
    /\ pc \in {"forwarded", "done"}
    /\ pc' = "idle"
    /\ inputs' = None /\ loss_ret' = None /\ grad_ret' = None /\ op_ret' = None
    /\ upstream' = None
    /\ oracle_calls' = 0
    /\ UNCHANGED << um, forward_args >>
    /\ UNCHANGED graphVars

Next == Feed \/ Forward \/ Backward \/ EndEval

Spec == Init /\ [][Next]_vars

\* The attributes loss() leaves on the instance when called with x.
Stored(x) ==
    LET r == mala_um_loss(x.mst, Flatten(x.gt_seg), x.alpha)
    IN  [loss |-> Some(F32(r[1])),
         gradient |-> Some(CastAll(r[2])),
         num_pairs_pos |-> CastAll(r[3]),
         num_pairs_neg |-> CastAll(r[4])]

\* C1: in an evaluation with a forward loss() call followed by the backward
\* gradient() call, the oracle is invoked exactly once.
C1_OracleOncePerStep ==
    (pc = "done" /\ loss_ret # None) => oracle_calls = 1

\* C2: gradient() returns the float32 cast of the gradient component of one
\* direct oracle invocation on the same mst, labels and alpha, whether or not
\* loss() was called before and whatever the instance has stored.
C2_GradientIsOracleGradient ==
    pc = "done" =>
        LET x == Value(inputs)
            r == mala_um_loss(x.mst, Flatten(x.gt_seg), x.alpha)
        IN  grad_ret = Some([e \in EdgeIds(x.mst) |-> F32(r[2][e])])

\* gradient() was called on an instance on which loss() was never called.
C2_Witness ==
    /\ pc = "done"
    /\ forward_args = None
    /\ \E e \in DOMAIN Value(grad_ret) : Value(grad_ret)[e] # 0

\* C3 as stated: the product goes to the first input (the mst edges) and no
\* gradient goes to dist, labels and alpha.
C3_GradientToEdges ==
    pc = "done" =>
        LET g == Value(grad_ret)
            r == Value(op_ret)
        IN  /\ r[1] = Some([e \in DOMAIN g |-> F32(g[e] * Value(upstream)[1])])
            /\ r[2] = None /\ r[3] = None /\ r[4] = None

\* C3 amended: the product of the upstream gradient of the loss output and the
\* per-edge gradient goes to the second input, dist; the mst edges, the
\* labels and alpha get no gradient; dpairs_pos and dpairs_neg are ignored.
C3_GradientToDist ==
    pc = "done" =>
        LET g == Value(grad_ret)
            r == Value(op_ret)
        IN  /\ r[2] = Some([e \in DOMAIN g |-> F32(g[e] * Value(upstream)[1])])
            /\ r[1] = None /\ r[3] = None /\ r[4] = None

C3_Witness ==
    /\ pc = "done"
    /\ Value(upstream) = <<3, 1, 1>>
    /\ \E e \in DOMAIN Value(grad_ret) : Value(grad_ret)[e] # 0

\* C7: the instance holds nothing before the first loss() call, and after it
\* exactly the (float32) oracle result for the arguments of the most recent
\* loss() call, all four components together; gradient() calls do not
\* change it.
C7_CacheIsLastForward ==
    /\ forward_args = None => um = UmLoss_init
    /\ forward_args # None => um = Stored(Value(forward_args))

\* After two loss() calls with different results, a gradient() call with
\* other arguments has returned.
C7_Witness ==
    /\ pc = "done"
    /\ loss_ret = None
    /\ forward_args # None
    /\ forward_args # inputs
    /\ um.gradient # grad_ret

\* C8 as stated: when the forward evaluation of a step begins, the cache
\* holds no value written during an earlier step.
C8_StepScoped ==
    pc = "fed" => um = UmLoss_init

\* C8 amended: the cache belongs to the op, not to the step.  What one
\* step's loss() stored is still held when the next step begins, and stays
\* until that step's loss() overwrites all of it.
C8_CacheOutlivesStep ==
    /\ (pc = "fed" /\ forward_args # None) =>
          /\ um.loss # None /\ um.gradient # None
          /\ um = Stored(Value(forward_args))
    /\ pc = "forwarded" =>
          /\ um = Stored(Value(inputs))
          /\ loss_ret = Some(<< Value(um.loss), um.num_pairs_pos, um.num_pairs_neg >>)

\* A step begins with inputs other than those of the previous step's loss().
C8_Witness ==
    /\ pc = "fed"
    /\ forward_args # None
    /\ forward_args # inputs
    /\ um # Stored(Value(inputs))

\* The cast to float32 changes a value that loss() stores.
CastRounds ==
    /\ pc = "forwarded"
    /\ LET x == Value(inputs)
       IN  Value(um.loss) # mala_um_loss(x.mst, Flatten(x.gt_seg), x.alpha)[1]

-----------------------------------------------------------------------------
(* SpecReshape: steps 1 and 2 of ultrametric_loss_op, from the embedding   *)
(* of shape (k, d, h, w) to one vector per point                           *)

MaxDim == 2

MaxChannels == 2

\* An embedding and a label volume whose elements are all different, so that
\* the place of every element can be followed.
TaggedTensor(shape, base) ==
    [shape |-> shape, at |-> [idx \in Indices(shape) |-> base + Offset(shape, idx)]]

\* tf.meshgrid(range(depth), range(height), range(width), indexing='ij'),
\* each cast to float32, as the (3, d, h, w) tensor that tf.concat makes of
\* the list: coordinates[i][z, y, x] is the i-th of (z, y, x).
Coordinates(depth, height, width) ==
    LET shp == <<3, depth, height, width>>
    IN  [shape |-> shp, at |-> [idx \in Indices(shp) |-> F32(idx[idx[1] + 2])]]

InitReshape ==
    /\ pc = "start"
    /\ \E k \in 1..MaxChannels, d \in 1..MaxDim, h \in 1..MaxDim, w \in 1..MaxDim :
          /\ embedding_arg = TaggedTensor(<<k, d, h, w>>, 100)
          /\ gt_seg = TaggedTensor(<<d, h, w>>, 500)
    /\ embedding = embedding_arg
    /\ add_coordinates \in BOOLEAN
    /\ alpha = 1
    /\ emst = None /\ dist_squared = None /\ dist = None /\ stats = None
    /\ loss = None
    /\ um = None /\ inputs = None /\ loss_ret = None /\ grad_ret = None
    /\ op_ret = None /\ upstream = None /\ forward_args = None
    /\ oracle_calls = 0

\* depth, height, width = embedding.shape.as_list()[-3:]
Depth == embedding_arg.shape[2]

Height == embedding_arg.shape[3]

Width == embedding_arg.shape[4]

\* 1. The coordinates are appended as three more channels, if requested.
Augment ==
    /\ pc = "start"
    /\ embedding' = IF add_coordinates
                    THEN Concat0(embedding, Coordinates(Depth, Height, Width))
                    ELSE embedding
    /\ pc' = "augmented"
    /\ UNCHANGED << embedding_arg, add_coordinates, gt_seg, alpha, emst,
                    dist_squared, dist, stats, loss >>
    /\ UNCHANGED cacheVars

\* The transposition with the spatial axes reversed.
TransposeReversed ==
    /\ pc = "augmented"
    /\ embedding' = Transpose(embedding, <<3, 2, 1, 0>>)
    /\ pc' = "transposed"
    /\ UNCHANGED << embedding_arg, add_coordinates, gt_seg, alpha, emst,
                    dist_squared, dist, stats, loss >>
    /\ UNCHANGED cacheVars

\* 2. tf.transpose(embedding, perm=[1, 2, 3, 0]): channels last.
TransposeChannelsLast ==
    /\ pc = "augmented"
    /\ embedding' = Transpose(embedding, <<1, 2, 3, 0>>)
    /\ pc' = "transposed"
    /\ UNCHANGED << embedding_arg, add_coordinates, gt_seg, alpha, emst,
                    dist_squared, dist, stats, loss >>
    /\ UNCHANGED cacheVars

\* tf.reshape(embedding, [depth*width*height, -1])
ReshapeToPoints ==
    /\ pc = "transposed"
    /\ embedding' = Reshape(embedding, Depth * Width * Height)
    /\ pc' = "reshaped"
    /\ UNCHANGED << embedding_arg, add_coordinates, gt_seg, alpha, emst,
                    dist_squared, dist, stats, loss >>
    /\ UNCHANGED cacheVars

NextReshape == Augment \/ TransposeChannelsLast \/ ReshapeToPoints

SpecReshape == InitReshape /\ [][NextReshape]_vars

\* C10: row z*height*width + y*width + x of the point matrix holds the channel
\* vector of location (z, y, x), followed by (z, y, x) when add_coordinates is
\* set (channel count + 3 entries); the label of (z, y, x) is at the same index
\* of the flattened label array.
C10_RowIsLocation ==
    pc = "reshaped" =>
        LET k == embedding_arg.shape[1]
        IN  /\ embedding.shape =
                 << Depth * Height * Width, IF add_coordinates THEN k + 3 ELSE k >>
            /\ \A z \in 0..(Depth - 1), y \in 0..(Height - 1), x \in 0..(Width - 1) :
                 LET r == z * Height * Width + y * Width + x
                 IN  /\ Row(embedding, r) =
                          [c \in 1..k |-> embedding_arg.at[<<c - 1, z, y, x>>]]
                            \o (IF add_coordinates THEN <<z, y, x>> ELSE << >>)
                     /\ Flatten(gt_seg)[r + 1] = gt_seg.at[<<z, y, x>>]

C10_Witness ==
    /\ pc = "reshaped"
    /\ add_coordinates
    /\ embedding_arg.shape = <<2, 2, 2, 2>>
    /\ Row(embedding, 5) = << embedding_arg.at[<<0, 1, 0, 1>>],
                              embedding_arg.at[<<1, 1, 0, 1>>], 1, 0, 1 >>

-----------------------------------------------------------------------------
(* SpecPretrain: steps 3 to 5 of ultrametric_loss_op with pretrain=True,   *)
(* from the point matrix to the loss                                       *)

MaxPoints == 4

GridPoints == {0, 1, 2} \X {0, 5}

PointMatrix(rows) ==
    [shape |-> <<Len(rows), 2>>,
     at |-> [idx \in Indices(<<Len(rows), 2>>) |-> rows[idx[1] + 1][idx[2] + 1]]]

\* Squared Euclidean distance of points i and j (0-based rows of m).
SquaredDistance(m, i, j) ==
    SumSeq([c \in 1..m.shape[2] |->
              (Row(m, i)[c] - Row(m, j)[c]) * (Row(m, i)[c] - Row(m, j)[c])])

\* The tree s (a sequence of node pairs) is a minimum spanning tree of the
\* points: no pair of points is closer than an edge on its tree path.
IsMinimumSpanningTree(m, s) ==
    LET t == [e \in 1..Len(s) |->
                <<s[e][1], s[e][2], SquaredDistance(m, s[e][1], s[e][2])>>]
    IN  \A p \in NodePairs(m.shape[1]) :
            \A e \in PathEdges(t, p[1], p[2]) :
                t[e][3] <= SquaredDistance(m, p[1], p[2])

\* The edges of S in order of ascending distance (ties: by endpoints).
RECURSIVE SortEdges(_)
SortEdges(S) ==
    IF S = {} THEN << >>
    ELSE LET m == CHOOSE x \in S : \A y \in S \ {x} :
                      \/ x[3] < y[3]
                      \/ x[3] = y[3] /\ x[1] < y[1]
                      \/ x[3] = y[3] /\ x[1] = y[1] /\ x[2] < y[2]
         IN  <<m>> \o SortEdges(S \ {m})

\* mala.emst(points): the n-1 edges (u, v, distance) of a Euclidean minimum
\* spanning tree; every minimum spanning tree is a possible output.
mala_emst(m) ==
    { SortEdges({ <<s[e][1], s[e][2], Sqrt(SquaredDistance(m, s[e][1], s[e][2]))>> :
                    e \in 1..Len(s) }) :
        s \in { t \in TreeShapes(m.shape[1]) : IsMinimumSpanningTree(m, t) } }

\* get_emst: the cast to float64 is exact.
get_emst(m) == mala_emst(m)

\* Every edge of every minimum spanning tree has an integer length.
ExactEmst(m) ==
    \A s \in TreeShapes(m.shape[1]) :
        IsMinimumSpanningTree(m, s) =>
            \A e \in 1..Len(s) : IsSquare(SquaredDistance(m, s[e][1], s[e][2]))

\* 4. gather the endpoints, subtract, square, reduce_sum over the channels.
edge_dist_squared(m, mst) ==
    [e \in EdgeIds(mst) |->
        LET u == Row(m, mst[e][1])
            v == Row(m, mst[e][2])
        IN  F32(SumSeq([c \in 1..Len(u) |-> F32(F32(u[c] - v[c]) * F32(u[c] - v[c]))]))]

\* The pretrain loss taken from the loss output of the oracle.
PretrainLossFromOracle(d2, d, st, a) == F32(st[1])

\* The pretrain loss without the clamp of alpha - dist at 0.
PretrainLossNoClamp(d2, d, st, a) ==
    LET loss_pos == [e \in DOMAIN d2 |-> F32(d2[e] * F32(st[3][e]))]
        loss_neg == [e \in DOMAIN d2 |->
                       F32(F32(F32(a - d[e]) * F32(a - d[e])) * F32(st[4][e]))]
    IN  F32(SumSeq([e \in DOMAIN d2 |-> F32(loss_pos[e] + loss_neg[e])]))

\* The pretrain branch after the py_func: casts, loss_pos, loss_neg and
\* their sum.  st holds the four outputs of the py_func.
pretrain_loss(d2, d, st, a) ==
    LET loss_pos == [e \in DOMAIN d2 |-> F32(d2[e] * F32(st[3][e]))]
        loss_neg == [e \in DOMAIN d2 |->
                       F32(F32(Max(0, F32(a - d[e])) * Max(0, F32(a - d[e])))
                             * F32(st[4][e]))]
    IN  F32(SumSeq([e \in DOMAIN d2 |-> F32(loss_pos[e] + loss_neg[e])]))

\* The lists of n different points of GridPoints, each set of points in one
\* order: by the second coordinate, then by the first.
PointLists(n) ==
    { r \in [1..n -> GridPoints] :
        \A i \in 1..(n - 1) :
            \/ r[i][2] < r[i + 1][2]
            \/ r[i][2] = r[i + 1][2] /\ r[i][1] < r[i + 1][1] }

InitPretrain ==
    /\ pc = "points"
    /\ embedding_arg = None /\ add_coordinates = FALSE
    /\ \E n \in 2..MaxPoints :
          /\ embedding \in { PointMatrix(r) : r \in PointLists(n) }
          /\ ExactEmst(embedding)
          /\ gt_seg \in LabelTensors(n)
    /\ alpha \in {1, 2}
    /\ emst = None /\ dist_squared = None /\ dist = None /\ stats = None
    /\ loss = None
    /\ um = None /\ inputs = None /\ loss_ret = None /\ grad_ret = None
    /\ op_ret = None /\ upstream = None /\ forward_args = None
    /\ oracle_calls = 0

\* 3. emst = get_emst_op(embedding)
GetEmst ==
    /\ pc = "points"
    /\ emst' \in get_emst(embedding)
    /\ pc' = "emst"
    /\ UNCHANGED << embedding_arg, add_coordinates, embedding, gt_seg, alpha,
                    dist_squared, dist, stats, loss >>
    /\ UNCHANGED cacheVars

\* 4. dist_squared and dist of the edges, from the embedding.
EdgeDistances ==
    /\ pc = "emst"
    /\ dist_squared' = edge_dist_squared(embedding, emst)
    /\ dist' = [e \in EdgeIds(emst) |-> Sqrt(edge_dist_squared(embedding, emst)[e])]
    /\ pc' = "dist"
    /\ UNCHANGED << embedding_arg, add_coordinates, embedding, gt_seg, alpha,
                    emst, stats, loss >>
    /\ UNCHANGED cacheVars

\* 5. The py_func around get_um_loss.  Its loss and gradient outputs are
\* allowed to be off by any of OracleNoise, as with a substitute oracle that
\* agrees on the pair counts only.
OracleNoise == {0, 7}

PairStatistics ==
    /\ pc = "dist"
    /\ \E j \in OracleNoise :
          LET r == get_um_loss(emst, gt_seg, alpha)
          IN  stats' = << r[1] + j, [e \in DOMAIN r[2] |-> r[2][e] - j], r[3], r[4] >>
    /\ pc' = "stats"
    /\ UNCHANGED << embedding_arg, add_coordinates, embedding, gt_seg, alpha,
                    emst, dist_squared, dist, loss >>
    /\ UNCHANGED cacheVars

PretrainLoss ==
    /\ pc = "stats"
    /\ loss' = pretrain_loss(dist_squared, dist, stats, alpha)
    /\ pc' = "loss"
    /\ UNCHANGED << embedding_arg, add_coordinates, embedding, gt_seg, alpha,
                    emst, dist_squared, dist, stats >>
    /\ UNCHANGED cacheVars

NextPretrain == GetEmst \/ EdgeDistances \/ PairStatistics \/ PretrainLoss

SpecPretrain == InitPretrain /\ [][NextPretrain]_vars

\* C4: the pretrain loss is the sum over the MST edges of
\* dist_squared*num_pos + max(0, alpha - dist)^2*num_neg, with the distances
\* of the embedding endpoints and the pair counts of the oracle, whatever the
\* loss and gradient fields of the oracle result are.
C4_PretrainClosedForm ==
    pc = "loss" =>
        LET r == mala_um_loss(emst, Flatten(gt_seg), alpha)
            D2(e) == SquaredDistance(embedding, emst[e][1], emst[e][2])
            Term(e) == D2(e) * r[3][e]
                       + Max(0, alpha - Sqrt(D2(e))) * Max(0, alpha - Sqrt(D2(e))) * r[4][e]
        IN  loss = SumSeq([e \in EdgeIds(emst) |-> Term(e)])

\* The loss field of the oracle result differs from the returned loss, and
\* positive and negative pairs both contribute.
C4_Witness ==
    /\ pc = "loss"
    /\ stats[1] # loss
    /\ \E e \in EdgeIds(emst) : stats[3][e] > 0 /\ dist_squared[e] > 0
    /\ \E e \in EdgeIds(emst) : stats[4][e] > 0 /\ alpha > dist[e]

ScenarioPoints == PointMatrix(<< <<0, 0>>, <<1, 0>>, <<0, 5>>, <<1, 5>> >>)

Scenario ==
    /\ embedding = ScenarioPoints
    /\ Flatten(gt_seg) = <<0, 0, 1, 1>>
    /\ alpha = 1

\* C6: for the points (0,0),(1,0),(0,5),(1,5), labels [0,0,1,1] and alpha 1,
\* the MST is the two length-1 edges inside the clusters and one length-5
\* edge between them; the short edges have num_pos 1 and num_neg 0, the long
\* edge num_pos 0 and num_neg 4, and the pretrain loss is 2.
C6_Scenario ==
    (Scenario /\ pc = "loss") =>
        /\ { <<emst[e][1], emst[e][2]>> : e \in 1..2 } = { <<0, 1>>, <<2, 3>> }
        /\ <<emst[3][1], emst[3][2]>> \in { <<0, 2>>, <<1, 3>> }
        /\ [e \in 1..3 |-> emst[e][3]] = <<1, 1, 5>>
        /\ stats[3] = <<1, 1, 0>>
        /\ stats[4] = <<0, 0, 4>>
        /\ loss = 2

C6_Witness == Scenario /\ pc = "loss" /\ Len(emst) = 3

====
